---- MODULE Spec2Model ----
(***************************************************************************)
(* Futex-based condition variable of library/std/src/sys/unix/locks/       *)
(* futex_condvar.rs.                                                       *)
(*                                                                         *)
(* The Condvar owns two AtomicU32 fields, futex and waiters.  Every atomic *)
(* access of the source is one action of the model.  The Mutex and the     *)
(* futex_wait / futex_wake / futex_wake_all primitives live outside this   *)
(* file; they are modelled by their documented contract.                   *)
(*                                                                         *)
(* Client threads follow the shape of the stress program at the end of the *)
(* source file: waiter threads lock the mutex and call wait or             *)
(* wait_timeout, notifier threads call notify_one or notify_all, with or   *)
(* without the mutex held.  A second client program has one waiter thread  *)
(* wait for a flag that the notifier threads set.                          *)
(*                                                                         *)
(* The atomic accesses are interleaved in one total order; the Relaxed     *)
(* orderings of the source are not distinguished from stronger ones.       *)
(***************************************************************************)
EXTENDS Integers, FiniteSets

\* Number of threads that call wait / wait_timeout.
NumWaiters == 2
\* Number of threads that call notify_one / notify_all.
NumNotifiers == 1
\* Number of notify calls that may take the slow path (each increments futex).
MaxNotify == 2
\* The same, in the specification with fairness.
MaxFairNotify == 1

\* AtomicU32 arithmetic wraps modulo 2^32.  The model keeps the wrapping
\* arithmetic and scales the width of both counters down to CounterBits bits,
\* wide enough that waiters cannot overflow with NumWaiters threads.
CounterBits == 2
Modulus == 2 ^ CounterBits

Waiters == 1..NumWaiters
Notifiers == (NumWaiters + 1)..(NumWaiters + NumNotifiers)
Threads == Waiters \cup Notifiers

\* Value of mutex when no thread holds it.
Unlocked == 0

VARIABLES
    futex,        \* Condvar::futex, the notification counter
    waiters,      \* Condvar::waiters, the number of registered waiters
    mutex,        \* the Mutex passed to wait: Unlocked or the holding thread
    pc,           \* each thread's position in the call it is executing
    futex_value,  \* wait_optional_timeout: local futex_value (the snapshot)
    timeout,      \* wait_optional_timeout: TRUE iff timeout is Some(_)
    r,            \* wait_optional_timeout: local r, the result of futex_wait
    kind,         \* notifier: "one" inside notify_one, "all" inside notify_all
    saw,          \* history: a waiter was registered when this notify began
    how,          \* history: the way the current futex_wait ended
    since,        \* history: increments of futex, by notifies that began with
                  \*          a waiter registered, since this wait's snapshot
    bumped,       \* history: since > 0 when this wait's futex_wait compared
    owed,         \* history: notify_one calls begun while this waiter was
                  \*          registered and had not finished futex_wait
    diverted,     \* history: such a call's wake went to another parked thread
    wrapped,      \* history: futex had come round to the snapshot at the check
    mark,         \* history: "all": parked when a notify_all began; "sole":
                  \*          parked when a notify_one began, and the only
                  \*          thread inside a wait call from then on
    everNotified, \* history: some notify call has begun
    everReturned, \* history: some wait call has returned
    budget,       \* slow-path notify calls the model still admits
    flag,         \* client program: the state a consumer waits for
    pending       \* client program: the producer has set flag and has not
                  \*                 yet called the notify_one that follows

vars == <<futex, waiters, mutex, pc, futex_value, timeout, r, kind,
          saw, how, since, bumped, owed, diverted, wrapped, mark, everNotified,
          everReturned, budget, flag, pending>>

condvar == <<futex, waiters>>
locals == <<futex_value, timeout, r, kind>>
history == <<saw, how, since, bumped, owed, diverted, wrapped, mark, everNotified,
             everReturned, budget>>
client == <<flag, pending>>

----------------------------------------------------------------------------
(* Positions.  A waiter goes idle -> register -> unlock -> futex_wait ->    *)
(* (parked ->) unregister -> relock -> ret -> idle.  A notifier goes        *)
(* idle -> (bump -> wake ->) done -> idle.                                  *)

WaitPcs == {"register", "unlock", "futex_wait", "parked", "unregister", "relock", "ret"}
NotifyPcs == {"bump", "wake", "done"}

\* Threads blocked inside futex_wait on &self.futex.
Parked == {t \in Waiters : pc[t] = "parked"}

\* Threads that have executed waiters.fetch_add and not yet waiters.fetch_sub.
Registered == {t \in Waiters : pc[t] \in {"unlock", "futex_wait", "parked", "unregister"}}

\* Threads that have executed step 2 and not yet completed step 4 (futex_wait).
InWindow == {t \in Waiters : pc[t] \in {"unlock", "futex_wait", "parked"}}

\* Threads that have taken the snapshot and not yet compared it in futex_wait.
BeforeCheck == {t \in Waiters : pc[t] \in {"register", "unlock", "futex_wait"}}

\* Threads somewhere inside wait / wait_timeout.
InWait == {t \in Waiters : pc[t] \in WaitPcs}

WrappingAdd(x, n) == (x + n) % Modulus
WrappingSub(x, n) == (x + Modulus - n) % Modulus

----------------------------------------------------------------------------
(* Construction.                                                           *)

\* Line 21: Self { futex: AtomicU32::new(0), waiters: AtomicU32::new(0) }.
New ==
    /\ futex = 0
    /\ waiters = 0

InitWith(n) ==
    /\ New
    /\ mutex = Unlocked
    /\ pc = [t \in Threads |-> "idle"]
    /\ futex_value = [t \in Waiters |-> 0]
    /\ timeout = [t \in Waiters |-> FALSE]
    /\ r = [t \in Waiters |-> TRUE]
    /\ kind = [t \in Notifiers |-> "none"]
    /\ saw = [t \in Notifiers |-> FALSE]
    /\ how = [t \in Waiters |-> "none"]
    /\ since = [t \in Waiters |-> 0]
    /\ bumped = [t \in Waiters |-> FALSE]
    /\ owed = [t \in Waiters |-> {}]
    /\ diverted = [t \in Waiters |-> FALSE]
    /\ wrapped = [t \in Waiters |-> FALSE]
    /\ mark = [t \in Waiters |-> "none"]
    /\ everNotified = FALSE
    /\ everReturned = FALSE
    /\ budget = n
    /\ flag = FALSE
    /\ pending = [b \in Notifiers |-> FALSE]

Init == InitWith(MaxNotify)

FairInit == InitWith(MaxFairNotify)

----------------------------------------------------------------------------
(* The Mutex, used by the callers around wait and around notify.           *)

\* Mutex::lock blocks until the mutex is free and takes it.
MutexLock(t) ==
    /\ mutex = Unlocked
    /\ mutex' = t

\* Mutex::unlock releases the mutex; only its holder calls it.
MutexUnlock(t) ==
    /\ mutex = t
    /\ mutex' = Unlocked

\* A caller takes the mutex (condvar.0.lock() in the stress program).
Lock(t) ==
    /\ pc[t] = "idle"
    /\ MutexLock(t)
    /\ UNCHANGED <<condvar, pc, locals, history, client>>

\* A caller drops its guard.
Unlock(t) ==
    /\ pc[t] = "idle"
    /\ MutexUnlock(t)
    /\ UNCHANGED <<condvar, pc, locals, history, client>>

----------------------------------------------------------------------------
(* wait / wait_timeout.                                                    *)

\* Entry of wait_optional_timeout and line 51:
\* let futex_value = self.futex.load(Relaxed).  The caller holds the mutex
\* (the precondition of wait).
wait_optional_timeout(t, to) ==
    /\ pc[t] = "idle"
    /\ mutex = t
    /\ futex_value' = [futex_value EXCEPT ![t] = futex]
    /\ timeout' = [timeout EXCEPT ![t] = to]
    /\ pc' = [pc EXCEPT ![t] = "register"]
    /\ mark' = [a \in Waiters |->
                  IF a # t /\ mark[a] = "sole" THEN "none" ELSE mark[a]]
    /\ UNCHANGED <<condvar, mutex, r, kind,
                   saw, how, since, bumped, owed, diverted, wrapped,
                   everNotified, everReturned, budget, client>>

\* Lines 41-43: self.wait_optional_timeout(mutex, None).
wait(t) == wait_optional_timeout(t, FALSE)

\* Lines 45-47: self.wait_optional_timeout(mutex, Some(timeout)).
wait_timeout(t) == wait_optional_timeout(t, TRUE)

\* A wait that goes on to unlock without registering.
waiters_fetch_add_skipped(t) ==
    /\ pc[t] = "register"
    /\ pc' = [pc EXCEPT ![t] = "unlock"]
    /\ UNCHANGED <<condvar, mutex, locals, history, client>>

\* Line 56: self.waiters.fetch_add(1, Relaxed).
waiters_fetch_add(t) ==
    /\ pc[t] = "register"
    /\ waiters' = WrappingAdd(waiters, 1)
    /\ pc' = [pc EXCEPT ![t] = "unlock"]
    /\ UNCHANGED <<futex, mutex, locals, history, client>>

\* Line 59: mutex.unlock().
mutex_unlock(t) ==
    /\ pc[t] = "unlock"
    /\ MutexUnlock(t)
    /\ pc' = [pc EXCEPT ![t] = "futex_wait"]
    /\ UNCHANGED <<condvar, locals, history, client>>

\* Line 63: the value futex_wait is asked to compare the futex word with.
Expected(t) == futex_value[t]

\* futex_wait: if the futex word no longer holds the expected value the call
\* returns at once (true); otherwise the thread parks.  The snapshot is dead
\* from here on.
futex_wait_check(t) ==
    /\ pc[t] = "futex_wait"
    /\ IF futex # Expected(t)
       THEN /\ pc' = [pc EXCEPT ![t] = "unregister"]
            /\ r' = [r EXCEPT ![t] = TRUE]
            /\ how' = [how EXCEPT ![t] = "changed"]
            /\ UNCHANGED <<owed, wrapped>>
       ELSE /\ pc' = [pc EXCEPT ![t] = "parked"]
            /\ owed' = [owed EXCEPT ![t] =
                          IF since[t] > 0 /\ since[t] % Modulus = 0
                          THEN {b \in owed[t] : pc[b] \in {"bump", "wake"}}
                          ELSE owed[t]]
            /\ wrapped' = [wrapped EXCEPT ![t] =
                             since[t] > 0 /\ since[t] % Modulus = 0]
            /\ UNCHANGED <<r, how>>
    /\ futex_value' = [futex_value EXCEPT ![t] = 0]
    /\ bumped' = [bumped EXCEPT ![t] = since[t] > 0]
    /\ since' = [since EXCEPT ![t] = 0]
    /\ UNCHANGED <<condvar, mutex, timeout, kind,
                   saw, diverted, mark, everNotified, everReturned, budget, client>>

\* futex_wait: the timeout elapses while the thread is parked (false).
futex_wait_timeout(t) ==
    /\ pc[t] = "parked"
    /\ timeout[t]
    /\ pc' = [pc EXCEPT ![t] = "unregister"]
    /\ r' = [r EXCEPT ![t] = FALSE]
    /\ how' = [how EXCEPT ![t] = "timeout"]
    /\ UNCHANGED <<condvar, mutex, futex_value, timeout, kind,
                   saw, since, bumped, owed, diverted, wrapped, mark,
                   everNotified, everReturned, budget, client>>

\* futex_wait: the parked thread returns with no wake and no timeout (true).
futex_wait_spurious(t) ==
    /\ pc[t] = "parked"
    /\ pc' = [pc EXCEPT ![t] = "unregister"]
    /\ r' = [r EXCEPT ![t] = TRUE]
    /\ how' = [how EXCEPT ![t] = "spurious"]
    /\ UNCHANGED <<condvar, mutex, futex_value, timeout, kind,
                   saw, since, bumped, owed, diverted, wrapped, mark,
                   everNotified, everReturned, budget, client>>

\* Line 63: let r = futex_wait(&self.futex, futex_value, timeout).
futex_wait(t) ==
    \/ futex_wait_check(t)
    \/ futex_wait_timeout(t)
    \/ futex_wait_spurious(t)

\* A decrement that a timed-out wait leaves out.
WaitersSubUnlessTimedOut(t) == IF r[t] THEN WrappingSub(waiters, 1) ELSE waiters

\* Line 68: the value self.waiters.fetch_sub(1, Relaxed) stores.
WaitersSub(t) == WrappingSub(waiters, 1)

\* A decrement made only once the mutex has been taken again.
waiters_fetch_sub_after_lock(t) ==
    /\ pc[t] = "unregister"
    /\ MutexLock(t)
    /\ waiters' = WaitersSub(t)
    /\ pc' = [pc EXCEPT ![t] = "ret"]
    /\ UNCHANGED <<futex, locals, history, client>>

\* Line 68: self.waiters.fetch_sub(1, Relaxed).
waiters_fetch_sub(t) ==
    /\ pc[t] = "unregister"
    /\ waiters' = WaitersSub(t)
    /\ pc' = [pc EXCEPT ![t] = "relock"]
    /\ UNCHANGED <<futex, mutex, locals, history, client>>

\* A return that does not take the mutex again.
mutex_lock_skipped(t) ==
    /\ pc[t] = "relock"
    /\ pc' = [pc EXCEPT ![t] = "ret"]
    /\ UNCHANGED <<condvar, mutex, locals, history, client>>

\* Line 71: mutex.lock().
mutex_lock(t) ==
    /\ pc[t] = "relock"
    /\ MutexLock(t)
    /\ pc' = [pc EXCEPT ![t] = "ret"]
    /\ UNCHANGED <<condvar, locals, history, client>>

\* A result that reports every return as a notification.
ReturnValueAlwaysTrue(t) == TRUE

\* Line 73: the value wait_optional_timeout returns.
ReturnValue(t) == r[t]

\* The call returns to its caller, which holds the mutex again.
wait_return(t) ==
    /\ pc[t] = "ret"
    /\ pc' = [pc EXCEPT ![t] = "idle"]
    /\ futex_value' = [futex_value EXCEPT ![t] = 0]
    /\ timeout' = [timeout EXCEPT ![t] = FALSE]
    /\ r' = [r EXCEPT ![t] = TRUE]
    /\ how' = [how EXCEPT ![t] = "none"]
    /\ since' = [since EXCEPT ![t] = 0]
    /\ bumped' = [bumped EXCEPT ![t] = FALSE]
    /\ owed' = [owed EXCEPT ![t] = {}]
    /\ diverted' = [diverted EXCEPT ![t] = FALSE]
    /\ wrapped' = [wrapped EXCEPT ![t] = FALSE]
    /\ mark' = [mark EXCEPT ![t] = "none"]
    /\ everReturned' = TRUE
    /\ UNCHANGED <<condvar, mutex, kind, saw, everNotified, budget, client>>

----------------------------------------------------------------------------
(* notify_one / notify_all.                                                *)

\* A check that takes the slow path whether or not a waiter is registered.
HasWaitersAlways == waiters >= 0

\* A check that needs a second waiter.
HasWaitersBeyondOne == waiters > 1

\* Lines 28 and 35: self.waiters.load(Relaxed) > 0.
HasWaiters == waiters > 0

\* Entry of notify_one / notify_all and the load of waiters.  With no waiter
\* registered the call is over; otherwise it goes on to increment futex.  The
\* call is the one its thread owes as a producer of the client program, if
\* it owes one.
notify(b, k) ==
    /\ pc[b] = "idle"
    /\ budget > 0
    /\ kind' = [kind EXCEPT ![b] = k]
    /\ pc' = [pc EXCEPT ![b] = IF HasWaiters THEN "bump" ELSE "done"]
    /\ budget' = IF HasWaiters THEN budget - 1 ELSE budget
    /\ saw' = [saw EXCEPT ![b] = Registered # {}]
    /\ owed' = [a \in Waiters |->
                  IF k = "one" /\ a \in InWindow THEN owed[a] \cup {b} ELSE owed[a]]
    /\ mark' = [a \in Waiters |->
                  IF mark[a] # "none" \/ pc[a] # "parked" THEN mark[a]
                  ELSE IF k = "all" THEN "all"
                  ELSE IF InWait = {a} THEN "sole"
                  ELSE "none"]
    /\ everNotified' = TRUE
    /\ pending' = [pending EXCEPT ![b] = FALSE]
    /\ UNCHANGED <<condvar, mutex, futex_value, timeout, r,
                   how, since, bumped, diverted, wrapped, everReturned, flag>>

\* Lines 27-32.
notify_one(b) == notify(b, "one")

\* Lines 34-39.
notify_all(b) == notify(b, "all")

\* An increment that leaves futex as it was.
FutexAddNothing == futex

\* An increment by two.
FutexAddTwo == WrappingAdd(futex, 2)

\* Lines 29 and 36: the value self.futex.fetch_add(1, Relaxed) stores.
FutexAdd == WrappingAdd(futex, 1)

\* An increment made only with the mutex free.
futex_fetch_add_locked(b) ==
    /\ pc[b] = "bump"
    /\ mutex = Unlocked
    /\ futex' = FutexAdd
    /\ pc' = [pc EXCEPT ![b] = "wake"]
    /\ since' = [a \in Waiters |->
                   IF saw[b] /\ a \in BeforeCheck THEN since[a] + 1 ELSE since[a]]
    /\ UNCHANGED <<waiters, mutex, locals, saw, how, bumped, owed, diverted, wrapped,
                   mark, everNotified, everReturned, budget, client>>

\* Lines 29 and 36: self.futex.fetch_add(1, Relaxed).
futex_fetch_add(b) ==
    /\ pc[b] = "bump"
    /\ futex' = FutexAdd
    /\ pc' = [pc EXCEPT ![b] = "wake"]
    /\ since' = [a \in Waiters |->
                   IF saw[b] /\ a \in BeforeCheck THEN since[a] + 1 ELSE since[a]]
    /\ UNCHANGED <<waiters, mutex, locals, saw, how, bumped, owed, diverted, wrapped,
                   mark, everNotified, everReturned, budget, client>>

\* futex_wake unblocks one thread parked on the futex word, futex_wake_all
\* unblocks all of them; with no thread parked both do nothing.  The sets of
\* threads a wake of kind k may unblock.
FutexWakeSets(k) ==
    IF Parked = {} THEN {{}}
    ELSE IF k = "all" THEN {Parked}
    ELSE {{a} : a \in Parked}

\* A notify_all that calls futex_wake.
WakeKindOne(b) == "one"

\* Line 30: futex_wake(&self.futex); line 37: futex_wake_all(&self.futex).
WakeKind(b) == kind[b]

\* Lines 30 and 37: the wake.  A woken thread's futex_wait returns true.
notify_wake(b) ==
    /\ pc[b] = "wake"
    /\ \E S \in FutexWakeSets(WakeKind(b)) :
         /\ pc' = [t \in Threads |->
                     IF t = b THEN "done" ELSE IF t \in S THEN "unregister" ELSE pc[t]]
         /\ r' = [a \in Waiters |-> IF a \in S THEN TRUE ELSE r[a]]
         /\ how' = [a \in Waiters |-> IF a \in S THEN "woken" ELSE how[a]]
         /\ owed' = [a \in Waiters |->
                       IF a \in Parked \ S THEN owed[a] \ {b} ELSE owed[a]]
         /\ diverted' = [a \in Waiters |->
                           diverted[a] \/ (b \in owed[a] /\ a \in Parked \ S)]
    /\ UNCHANGED <<condvar, mutex, futex_value, timeout, kind, saw, since, bumped,
                   wrapped, mark, everNotified, everReturned, budget, client>>

\* Lines 32 and 39: the notify call returns.
notify_return(b) ==
    /\ pc[b] = "done"
    /\ pc' = [pc EXCEPT ![b] = "idle"]
    /\ kind' = [kind EXCEPT ![b] = "none"]
    /\ saw' = [saw EXCEPT ![b] = FALSE]
    /\ UNCHANGED <<condvar, mutex, futex_value, timeout, r,
                   how, since, bumped, owed, diverted, wrapped, mark,
                   everNotified, everReturned, budget, client>>

----------------------------------------------------------------------------
(* A client program: a consumer that waits for flag and producers that set *)
(* it.  The consumer runs `while !flag { wait }` with the mutex held, then *)
(* takes flag (resets it) and drops its guard.  A producer sets flag with  *)
(* the mutex held and calls notify_one afterwards, before or after it      *)
(* drops its guard.                                                        *)

\* The one thread that is the consumer.
Consumers == {CHOOSE t \in Waiters : TRUE}

\* Loop test false: the consumer calls wait.
consumer_wait(t) ==
    /\ ~flag
    /\ wait(t)

\* Loop test true: the consumer leaves the loop, takes flag and drops its guard.
consumer_leave(t) ==
    /\ pc[t] = "idle"
    /\ flag
    /\ flag' = FALSE
    /\ MutexUnlock(t)
    /\ UNCHANGED <<condvar, pc, locals, history, pending>>

\* The producers that owe a notify_one.
Owing == {b \in Notifiers : pending[b]}

\* A producer sets flag with the mutex held; it owes a notify_one from now on.
\* It makes the change only if that call may still take the slow path.
producer_set(b) ==
    /\ pc[b] = "idle"
    /\ mutex = b
    /\ ~flag
    /\ ~pending[b]
    /\ budget > Cardinality(Owing)
    /\ flag' = TRUE
    /\ pending' = [pending EXCEPT ![b] = TRUE]
    /\ UNCHANGED <<condvar, mutex, pc, locals, history>>

\* The notify_one that follows a change of flag.
producer_notify(b) ==
    /\ pending[b]
    /\ notify_one(b)

\* The variant of wait_optional_timeout with lines 51 and 56 in the other
\* order: entry of the call and self.waiters.fetch_add(1, Relaxed).
variant_fetch_add(t) ==
    /\ pc[t] = "idle"
    /\ mutex = t
    /\ ~flag
    /\ waiters' = WrappingAdd(waiters, 1)
    /\ timeout' = [timeout EXCEPT ![t] = FALSE]
    /\ pc' = [pc EXCEPT ![t] = "snapshot"]
    /\ UNCHANGED <<futex, mutex, futex_value, r, kind, history, client>>

\* The variant: let futex_value = self.futex.load(Relaxed), after the
\* increment of waiters.
variant_futex_load(t) ==
    /\ pc[t] = "snapshot"
    /\ futex_value' = [futex_value EXCEPT ![t] = futex]
    /\ pc' = [pc EXCEPT ![t] = "unlock"]
    /\ UNCHANGED <<condvar, mutex, timeout, r, kind, history, client>>

\* Threads of the variant between its increment and its decrement of waiters.
VariantRegistered == Registered \cup {t \in Waiters : pc[t] = "snapshot"}

----------------------------------------------------------------------------
(* Specifications.                                                         *)

Next ==
    \/ \E t \in Threads : Lock(t)
    \/ \E t \in Threads : Unlock(t)
    \/ \E t \in Waiters : wait(t)
    \/ \E t \in Waiters : wait_timeout(t)
    \/ \E t \in Waiters : waiters_fetch_add(t)
    \/ \E t \in Waiters : mutex_unlock(t)
    \/ \E t \in Waiters : futex_wait(t)
    \/ \E t \in Waiters : waiters_fetch_sub(t)
    \/ \E t \in Waiters : mutex_lock(t)
    \/ \E t \in Waiters : wait_return(t)
    \/ \E b \in Notifiers : notify_one(b)
    \/ \E b \in Notifiers : notify_all(b)
    \/ \E b \in Notifiers : futex_fetch_add(b)
    \/ \E b \in Notifiers : notify_wake(b)
    \/ \E b \in Notifiers : notify_return(b)

Spec == Init /\ [][Next]_vars

\* Every thread that is inside a call keeps being scheduled; a timed wait's
\* clock runs out; a thread that holds the mutex outside a call releases it,
\* and a thread that asks for the mutex gets it if it is free often enough.
\* Nothing obliges a thread to begin a call, and nothing obliges futex_wait to
\* return spuriously.
WaiterFairness(t) ==
    /\ WF_vars(waiters_fetch_add(t))
    /\ WF_vars(mutex_unlock(t))
    /\ WF_vars(futex_wait_check(t))
    /\ WF_vars(futex_wait_timeout(t))
    /\ WF_vars(waiters_fetch_sub(t))
    /\ SF_vars(mutex_lock(t))
    /\ WF_vars(wait_return(t))

NotifierFairness(b) ==
    /\ WF_vars(futex_fetch_add(b))
    /\ WF_vars(notify_wake(b))
    /\ WF_vars(notify_return(b))

FairSpec ==
    /\ FairInit /\ [][Next]_vars
    /\ \A t \in Threads : SF_vars(Unlock(t))
    /\ \A t \in Waiters : WaiterFairness(t)
    /\ \A b \in Notifiers : NotifierFairness(b)

\* The initial state of a run long enough for futex to come all the way round.
WrapInit == InitWith(Modulus)

\* Every operation, with as many slow-path notify calls as futex has values.
WrapSpec == WrapInit /\ [][Next]_vars

\* The steps of a wait call after its first two, and of a notify call after
\* its first, as the client program's threads take them.  The consumer's
\* waits have no timeout.
ClientCalls ==
    \/ \E t \in Consumers : mutex_unlock(t)
    \/ \E t \in Consumers : futex_wait_check(t)
    \/ \E t \in Consumers : futex_wait_spurious(t)
    \/ \E t \in Consumers : waiters_fetch_sub(t)
    \/ \E t \in Consumers : mutex_lock(t)
    \/ \E t \in Consumers : wait_return(t)
    \/ \E b \in Notifiers : futex_fetch_add(b)
    \/ \E b \in Notifiers : notify_wake(b)
    \/ \E b \in Notifiers : notify_return(b)

\* The steps of the client program outside the calls.
ClientSteps ==
    \/ \E t \in Consumers \cup Notifiers : Lock(t)
    \/ \E b \in Notifiers : Unlock(b)
    \/ \E t \in Consumers : consumer_leave(t)
    \/ \E b \in Notifiers : producer_set(b)
    \/ \E b \in Notifiers : producer_notify(b)

ClientNext ==
    \/ ClientSteps
    \/ ClientCalls
    \/ \E t \in Consumers : consumer_wait(t)
    \/ \E t \in Consumers : waiters_fetch_add(t)

\* The client program on the variant of wait.
VariantNext ==
    \/ ClientSteps
    \/ ClientCalls
    \/ \E t \in Consumers : variant_fetch_add(t)
    \/ \E t \in Consumers : variant_futex_load(t)

\* The consumer keeps running its loop and takes the mutex when it is free
\* often enough; a producer that holds the mutex releases it, and makes the
\* notify_one it owes.  Nothing obliges a producer to set flag, and nothing
\* obliges futex_wait to return spuriously.
ClientFairness ==
    /\ \A t \in Consumers :
          /\ SF_vars(Lock(t))
          /\ WF_vars(consumer_leave(t))
          /\ WaiterFairness(t)
    /\ \A b \in Notifiers :
          /\ SF_vars(Unlock(b))
          /\ WF_vars(producer_notify(b))
          /\ NotifierFairness(b)

ClientSpec ==
    /\ FairInit /\ [][ClientNext]_vars
    /\ ClientFairness
    /\ \A t \in Consumers : WF_vars(consumer_wait(t))

VariantSpec ==
    /\ FairInit /\ [][VariantNext]_vars
    /\ ClientFairness
    /\ \A t \in Consumers : WF_vars(variant_fetch_add(t)) /\ WF_vars(variant_futex_load(t))

TypeOK ==
    /\ futex \in 0..(Modulus - 1)
    /\ waiters \in 0..NumWaiters
    /\ budget \in 0..(MaxNotify + Modulus)
    /\ mutex \in {Unlocked} \cup Threads
    /\ flag \in BOOLEAN
    /\ pending \in [Notifiers -> BOOLEAN]
    /\ \A t \in Waiters : pc[t] \in {"idle", "snapshot"} \cup WaitPcs
    /\ \A b \in Notifiers : pc[b] \in {"idle"} \cup NotifyPcs

----------------------------------------------------------------------------
(* Properties.                                                             *)

\* C1 as stated: a wait call that was registered and still inside futex_wait
\* when some notify_one call began eventually returns.
NoLostWakeupAnyThreads ==
    \A a \in Waiters :
        (owed[a] # {} \/ diverted[a] \/ wrapped[a])
            ~> (owed[a] = {} /\ ~diverted[a] /\ ~wrapped[a])

\* C1, amended: the wait call eventually returns unless the notify_one's wake
\* was delivered to another thread parked together with it, or futex had come
\* all the way round to the snapshot when futex_wait compared it.
NoLostWakeup ==
    \A a \in Waiters : (owed[a] # {}) ~> (owed[a] = {})

\* C1 witness: a notify_one call has completed that began while an untimed
\* wait was registered and not yet through futex_wait, and that wait has
\* returned on the changed value or on the wake.
NoLostWakeupWitness ==
    \E a \in Waiters : \E b \in owed[a] :
        /\ pc[a] = "ret"
        /\ pc[b] = "idle"
        /\ ~timeout[a]
        /\ how[a] \in {"changed", "woken"}

\* Waiters inside a wait call that no notify_all has marked.
Unmarked == {t \in InWait : mark[t] # "all"}

\* C2: every thread that was parked when a notify_all call began eventually
\* returns from its wait call; and unless some other wait call is in progress,
\* waiters comes down to 0 with no thread left parked.
NotifyAllWakesAll ==
    /\ \A a \in Waiters : (mark[a] = "all") ~> (pc[a] = "ret")
    /\ (\E a \in Waiters : mark[a] = "all")
           ~> ((waiters = 0 /\ Parked = {}) \/ Unmarked # {})

\* C2 witness: all the waiters were parked in untimed waits when notify_all
\* began, all were woken by it, waiters is back to 0 and one has returned.
NotifyAllWakesAllWitness ==
    /\ \A a \in Waiters :
          mark[a] = "all" /\ how[a] = "woken" /\ ~timeout[a] /\ pc[a] \in {"relock", "ret"}
    /\ \E a \in Waiters : pc[a] = "ret"
    /\ waiters = 0

\* C3: a thread that was parked, and was the only thread inside a wait call,
\* when a notify_one call began eventually returns from wait, unless another
\* thread enters a wait call first; when it returns, waiters is 0 and it
\* holds the mutex.
SingleNotifyWakesSingleWait ==
    /\ \A a \in Waiters : (mark[a] = "sole") ~> (pc[a] = "ret" \/ mark[a] # "sole")
    /\ [](\A a \in Waiters :
            (pc[a] = "ret" /\ mark[a] = "sole") => (waiters = 0 /\ mutex = a))

\* C3 witness: the only waiter, parked in an untimed wait when notify_one
\* began, has been woken and has returned.
SingleNotifyWakesSingleWaitWitness ==
    \E a \in Waiters :
        /\ pc[a] = "ret"
        /\ mark[a] = "sole"
        /\ how[a] = "woken"
        /\ ~timeout[a]
        /\ InWait = {a}
        /\ waiters = 0
        /\ mutex = a

\* C4: a wait call holds the mutex up to its unlock and again when it returns,
\* and does not hold it in between; inside the call the caller gives the
\* mutex up only by the one unlock and takes it only by the one lock.
LockDiscipline ==
    /\ [](\A t \in Waiters :
            /\ pc[t] \in {"register", "unlock", "ret"} => mutex = t
            /\ pc[t] \in {"futex_wait", "parked", "unregister", "relock"} => mutex # t)
    /\ [][\A t \in Waiters :
            /\ (pc[t] \in WaitPcs /\ mutex = t /\ mutex' # t)
                   => (pc[t] = "unlock" /\ pc'[t] = "futex_wait")
            /\ (pc[t] \in WaitPcs /\ mutex # t /\ mutex' = t)
                   => (pc[t] = "relock" /\ pc'[t] = "ret")]_vars

\* C4 witness: a wait_timeout call that timed out is returning while another
\* thread is inside its own wait call, and the caller holds the mutex.
LockDisciplineWitness ==
    \E t \in Waiters :
        /\ pc[t] = "ret"
        /\ how[t] = "timeout"
        /\ mutex = t
        /\ InWait # {t}

WaitCountCorrectness ==
    /\ InWait = {} => waiters = 0
    /\ \A t \in Waiters :
          pc[t] \in {"relock", "ret"} => waiters = Cardinality(Registered)

\* C6 witness: waits that ended by timeout and by wake have completed, no
\* thread is registered any more, and waiters is 0.
WaitCountCorrectnessWitness ==
    /\ \E t \in Waiters : pc[t] = "ret" /\ how[t] = "timeout"
    /\ \E t \in Waiters : pc[t] = "relock" /\ how[t] = "woken"
    /\ waiters = 0

\* C7: the value a wait call is about to return is false exactly when its
\* futex_wait ended by timeout, which only a timed wait does.
TimeoutResult ==
    \A t \in Waiters :
        pc[t] \in {"unregister", "relock", "ret"} =>
            /\ (ReturnValue(t) = FALSE) <=> (how[t] = "timeout")
            /\ how[t] = "timeout" => timeout[t]

\* C7 witness: a wait_timeout call that timed out after a notify had
\* incremented futex for another waiter returns false.
TimeoutResultWitness ==
    \E t \in Waiters :
        /\ pc[t] = "ret"
        /\ how[t] = "timeout"
        /\ ReturnValue(t) = FALSE
        /\ futex > 0

\* C8 as stated: a wait_timeout call made alone, with no notify call ever
\* begun, returns false with waiters 0.
TimeoutNoNotifierAlwaysFalse ==
    \A t \in Waiters :
        (pc[t] = "ret" /\ timeout[t] /\ ~everNotified /\ InWait = {t})
            => (ReturnValue(t) = FALSE /\ waiters = 0)

\* C8, amended: a wait_timeout call eventually returns; if no notify call has
\* begun by then, its futex_wait ended by timeout or spuriously, it returns
\* false in the first case, and waiters is 0 if no other wait is in progress.
TimeoutNoNotifier ==
    /\ \A t \in Waiters : (pc[t] \in WaitPcs /\ timeout[t]) ~> (pc[t] = "ret")
    /\ [](\A t \in Waiters :
            (pc[t] = "ret" /\ timeout[t] /\ ~everNotified) =>
                /\ how[t] \in {"timeout", "spurious"}
                /\ how[t] = "timeout" => ReturnValue(t) = FALSE
                /\ InWait = {t} => waiters = 0)

\* C8 witness: a wait_timeout call made alone, with no notify call ever begun,
\* has timed out and returns false with waiters 0.
TimeoutNoNotifierWitness ==
    \E t \in Waiters :
        /\ pc[t] = "ret"
        /\ timeout[t]
        /\ ~everNotified
        /\ InWait = {t}
        /\ how[t] = "timeout"
        /\ ReturnValue(t) = FALSE
        /\ waiters = 0

\* C9: futex_wait returns at once on a changed value only if a notify call
\* that began with a waiter registered incremented futex after the wait's
\* snapshot; notify calls made with no waiter registered never cause it.
NoSpuriousImmediateReturn ==
    \A t \in Waiters : how[t] = "changed" => bumped[t]

\* C9 witness: a wait took its snapshot, a notify that began with a waiter
\* registered incremented futex, and the wait's futex_wait returned at once.
NoSpuriousImmediateReturnWitness ==
    \E t \in Waiters :
        /\ how[t] = "changed"
        /\ bumped[t]
        /\ pc[t] = "unregister"

\* C10: a notify call that has begun can always take its next step, whoever
\* holds the mutex and whichever threads are parked.
NotifyNeverBlocks ==
    \A b \in Notifiers :
        /\ pc[b] = "bump" => ENABLED futex_fetch_add(b)
        /\ pc[b] = "wake" => ENABLED notify_wake(b)
        /\ pc[b] = "done" => ENABLED notify_return(b)

\* C10 witness: a notify call is about to increment futex while a waiter
\* holds the mutex and another thread is parked.
NotifyNeverBlocksWitness ==
    \E b \in Notifiers :
        /\ pc[b] = "bump"
        /\ mutex \in Waiters
        /\ Parked # {}

\* Threads that have executed waiters.fetch_add and not yet taken the mutex
\* again at line 71.
UntilRelock ==
    {t \in Waiters : pc[t] \in {"unlock", "futex_wait", "parked", "unregister", "relock"}}

\* C11 as stated: waiters is never negative and equals the number of threads
\* that have incremented it and not yet reacquired the mutex.
WaitersCountsUntilRelock ==
    /\ waiters >= 0
    /\ waiters = Cardinality(UntilRelock)

\* C11, amended: waiters is never negative and equals the number of threads
\* that have incremented it (line 56) and not yet decremented it (line 68);
\* a thread that has decremented and is waiting for the mutex is not counted.
WaitersCountsRegistered ==
    /\ waiters >= 0
    /\ waiters = Cardinality(Registered)

\* C11 witness: one thread has decremented waiters and waits for the mutex,
\* which another thread holds, while another waiter is still registered:
\* waiters is 1, not 2.
WaitersCountsRegisteredWitness ==
    \E t \in Waiters :
        /\ pc[t] = "relock"
        /\ mutex \notin {Unlocked, t}
        /\ Registered # {}
        /\ waiters = 1

\* The notify calls that have read waiters > 0 and not yet incremented futex.
AboutToIncrement == {b \in Notifiers : pc[b] = "bump"}

\* The number of increments of futex completed so far in a run that began with
\* Modulus slow-path notify calls to go: the calls that read waiters > 0, less
\* those that have not yet incremented.
CompletedIncrements == (Modulus - budget) - Cardinality(AboutToIncrement)

NoSleepAfterNotification ==
    \A t \in Waiters : pc[t] = "parked" => ~bumped[t]

\* C13, amended: if notify calls incremented futex between a wait's snapshot
\* and its comparison, futex_wait returns at once, across a wraparound too,
\* unless the number of increments is a multiple of the counter's modulus:
\* then futex equals the snapshot again and the wait goes to sleep.
NoSleepUnlessFullWrap ==
    \A t \in Waiters : bumped[t] => (how[t] = "changed" \/ wrapped[t])

\* C13 witness: one wait saw Modulus increments between its snapshot and its
\* comparison and is parked, while another saw fewer, on the same run, and
\* returned at once.
NoSleepUnlessFullWrapWitness ==
    /\ \E t \in Waiters : pc[t] = "parked" /\ bumped[t] /\ wrapped[t]
    /\ \E t \in Waiters : pc[t] = "unregister" /\ bumped[t] /\ how[t] = "changed"

\* Threads that have released the mutex at line 59 and have not finished
\* futex_wait: about to compare, or parked.
AfterUnlock == {t \in Waiters : pc[t] \in {"futex_wait", "parked"}}

\* C14: while some thread has released the mutex in wait and is parked or has
\* yet to make the comparison of futex_wait, waiters is positive, and a notify
\* call that begins then goes on to increment futex and to wake rather than
\* return on waiters = 0.
RegisterBeforeUnlock ==
    /\ [](AfterUnlock # {} => waiters > 0)
    /\ [][\A b \in Notifiers :
            (AfterUnlock # {} /\ pc[b] = "idle" /\ pc'[b] # "idle")
                => pc'[b] = "bump"]_vars

\* C14 witness: a notifier that took the mutex after the only waiter had
\* released it has read waiters = 1 and is about to increment futex, while the
\* waiter has yet to make the comparison of futex_wait.
RegisterBeforeUnlockWitness ==
    \E b \in Notifiers : \E t \in Waiters :
        /\ pc[b] = "bump"
        /\ mutex = b
        /\ pc[t] = "futex_wait"
        /\ InWait = {t}
        /\ waiters = 1

\* C15: once futex_wait has returned, the decrement of waiters is the wait's
\* next step and can be taken whoever holds the mutex; the wait asks for the
\* mutex only after it.  A thread waiting for the mutex at line 71 is not
\* counted: with no other thread registered waiters is 0, and a notify call
\* that begins then returns without incrementing futex.
DecrementBeforeRelock ==
    /\ [](\A t \in Waiters :
            /\ pc[t] = "unregister" => ENABLED waiters_fetch_sub(t)
            /\ (pc[t] = "relock" /\ Registered = {}) => waiters = 0)
    /\ [][/\ \A t \in Waiters :
                (pc[t] = "unregister" /\ pc'[t] # "unregister")
                    => /\ pc'[t] = "relock"
                       /\ waiters' = WrappingSub(waiters, 1)
                       /\ mutex' = mutex
          /\ \A b \in Notifiers :
                (/\ \E t \in Waiters : pc[t] = "relock"
                 /\ Registered = {}
                 /\ pc[b] = "idle" /\ pc'[b] # "idle")
                    => pc'[b] = "done"]_vars

\* C15 witness: a woken thread has decremented waiters and waits for the
\* mutex, which a notifier holds; no other thread is inside a wait call, and
\* the notifier's next notify call has returned on waiters = 0.
DecrementBeforeRelockWitness ==
    \E b \in Notifiers : \E t \in Waiters :
        /\ pc[t] = "relock"
        /\ how[t] = "woken"
        /\ mutex = b
        /\ InWait = {t}
        /\ waiters = 0
        /\ pc[b] = "done"
        /\ ~saw[b]

\* Nothing of the client program is in progress but the consumer's sleep: the
\* consumer is parked, no notify call is running and none is owed.
AsleepAndQuiet ==
    /\ \A t \in Consumers : pc[t] = "parked"
    /\ \A b \in Notifiers : pc[b] = "idle"
    /\ Owing = {}

PredicateLiveness ==
    /\ flag ~> ~flag
    /\ \A t \in Consumers :
          (flag /\ Owing = {} /\ pc[t] = "parked") ~> (pc[t] # "parked")

\* C17 witness: the consumer was inside wait when the producer set flag, the
\* producer's notify_one woke it, and it has returned from wait to find flag
\* set.
PredicateLivenessWitness ==
    \E t \in Consumers :
        /\ pc[t] = "ret"
        /\ how[t] = "woken"
        /\ flag
        /\ Owing = {}
        /\ \A b \in Notifiers : pc[b] = "idle"

\* C18: waiters stays between 0 and the number of threads; every decrement
\* is made by a thread that incremented waiters earlier in the same call and
\* finds the counter positive, so that the counter never wraps below 0.
WaitersInRange ==
    /\ [](/\ waiters \in 0..Cardinality(Threads)
          /\ \A t \in Waiters : pc[t] = "unregister" => waiters > 0)
    /\ [][/\ waiters' = WrappingSub(waiters, 1) =>
                (waiters > 0 /\ \E t \in Registered : pc'[t] = "relock")
          /\ waiters' = WrappingAdd(waiters, 1) =>
                (waiters < Cardinality(Threads)
                    /\ \E t \in Waiters : pc[t] = "register" /\ pc'[t] = "unlock")
          /\ waiters' \in {waiters, WrappingAdd(waiters, 1), WrappingSub(waiters, 1)}]_vars

\* C18 witness: every waiter thread is registered, waiters equals their number,
\* and one of them is about to decrement.
WaitersInRangeWitness ==
    /\ Registered = Waiters
    /\ waiters = NumWaiters
    /\ \E t \in Waiters : pc[t] = "unregister"

====
